---- MODULE Spec2Model ----
(***************************************************************************)
(* Model of the background-removal HTTP service.  Two files implement the  *)
(* same endpoint: src/server.js and src/unnamed/part_000 (the variant that  *)
(* passes a model selector to the backend).  Each file is translated on    *)
(* its own; the two servers are run side by side on the same requests and  *)
(* the same outcomes of the filesystem and backend calls.                  *)
(*                                                                         *)
(* A JavaScript value is the tuple of its type and its tokens; a string is *)
(* the sequence of its tokens, so that template strings and String() are   *)
(* concatenations and not identities.                                      *)
(***************************************************************************)
EXTENDS Integers, Sequences, FiniteSets, TLC

\* ------------------------------------------------------------------ bounds
\* how many values crypto.randomBytes(6) draws from
NumSuffixes == 2

\* the requests in flight at the same time
Requests == {"r1", "r2"}
\* crypto.randomBytes(6): one of finitely many values
Suffixes == 1..NumSuffixes

\* ------------------------------------------------------- JavaScript values
Str(s) == <<"string">> \o s
Null == <<"null">>
Undefined == <<"undefined">>
Zero == <<"number", "0">>
ErrorValue(name, message) == <<"error", name, message>>

TypeOf(x) == x[1]
Tokens(x) == Tail(x)

\* ToBoolean: undefined, null, "" and 0 are falsy
Truthy(x) ==
  ~ \/ TypeOf(x) \in {"undefined", "null"}
    \/ TypeOf(x) = "string" /\ Tokens(x) = <<>>
    \/ TypeOf(x) = "number" /\ Tokens(x) = <<"0">>

\* String(x)
String(x) ==
  CASE TypeOf(x) = "string" -> x
    [] TypeOf(x) = "error" -> Str(<<x[2], ": ", x[3]>>)
    [] TypeOf(x) = "number" -> Str(Tokens(x))
    [] TypeOf(x) = "null" -> Str(<<"null">>)
    [] OTHER -> Str(<<"undefined">>)

\* An Error object; multer is TRUE for instances of multer.MulterError
Error(name, message, cause, multer) ==
  [name |-> Str(<<name>>), message |-> Str(message), cause |-> cause,
   multer |-> multer]

NoError == [name |-> Undefined, message |-> Undefined, cause |-> Undefined,
            multer |-> FALSE]

\* ----------------------------------------------------------------- uploads
\* limits.fileSize
fileSize == 10 * 1024 * 1024

\* one multipart file part: the form field that carries it, its declared
\* content type, its filename (the segments between separators, each a
\* string) and its byte length
Part(field, mimetype, originalname, size) ==
  [field |-> field, mimetype |-> mimetype, originalname |-> originalname,
   size |-> size]

NoPart == Part("", "", <<>>, 0)

Uploads ==
  { NoPart,
    Part("image", "image/png", << <<"a.png">> >>, 1),
    Part("image", "image/jpeg", << <<"..">>, <<"a.png">> >>, 0),
    Part("image", "image/png", <<>>, 1),
    Part("image", "image/webp", << <<"b.webp">> >>, fileSize),
    Part("image", "image/png", << <<"a.png">> >>, fileSize + 1),
    Part("image", "text/plain", << <<"notes.png">> >>, 1),
    Part("image", "text/plain", << <<"notes.png">> >>, fileSize + 1),
    Part("file", "image/png", << <<"a.png">> >>, 1) }

NoFile == [originalname |-> <<>>, mimetype |-> "", size |-> -1]

\* ---------------------------------------------------- environment outcomes
\* fs.writeFile: written, failed before creating the file, or failed after
\* creating it (the file is left behind, truncated)
WriteOutcomes == {"ok", "fail", "partial"}
WriteError(o) ==
  IF o = "partial"
  THEN Error("Error", <<"ENOSPC: no space left on device, write">>, Undefined, FALSE)
  ELSE Error("Error", <<"EACCES: permission denied, open">>, Undefined, FALSE)

\* the Blob a successful removeBackground resolves to: an encoded image
Blob(type, bytes) == [type |-> Str(type), bytes |-> bytes]
NoBlob == Blob(<<>>, <<>>)
Blobs == { Blob(<<"image/png">>, <<137, 80>>), Blob(<<>>, <<137, 80, 78>>) }

\* the Error a failed removeBackground rejects with
RemovalErrors ==
  { Error("Error", <<"Unsupported format">>, Undefined, FALSE),
    Error("TypeError", <<"fetch failed">>, ErrorValue("Error", "ENOENT"), FALSE),
    Error("Error", <<"Resource exhausted">>, Zero, FALSE) }

BackendOutcomes ==
  [ok : {TRUE}, blob : Blobs, error : {NoError}] \cup
  [ok : {FALSE}, blob : {NoBlob}, error : RemovalErrors]

DecodeError == Error("TypeError", <<"arrayBuffer failed">>, Undefined, FALSE)

\* ---------------------------------------------------------------- responses
\* an HTTP response: status line, the two headers the service sets, and the
\* body (a JSON object, or raw bytes)
JsonBody(error, details, name, cause) ==
  [error |-> error, details |-> details, name |-> name, cause |-> cause]
NoJson == JsonBody(Undefined, Undefined, Undefined, Undefined)

NoResponse ==
  [status |-> 0, contentType |-> Undefined, disposition |-> Undefined,
   json |-> NoJson, bytes |-> <<>>]

\* res.status(code).json(body)
Json(code, body) ==
  [status |-> code, contentType |-> Str(<<"application/json; charset=utf-8">>),
   disposition |-> Undefined, json |-> body, bytes |-> <<>>]

\* res.setHeader(...); res.setHeader(...); res.send(buffer) with the default
\* status code
Send(contentType, disposition, buffer) ==
  [status |-> 200, contentType |-> contentType, disposition |-> disposition,
   json |-> NoJson, bytes |-> buffer]

\* ------------------------------------------------------------- node library
\* os.tmpdir(), as path segments
tempDir == << <<"tmp">> >>

\* toString("hex") of the random bytes
Hex(n) == ToString(n)

\* path.basename: the last segment, "" when there is none
basename(segments) ==
  IF segments = <<>> THEN <<>> ELSE segments[Len(segments)]

\* the segments of a string, which "/" separates
RECURSIVE split(_)
split(name) ==
  IF \A i \in DOMAIN name : name[i] # "/"
  THEN <<name>>
  ELSE LET i == CHOOSE k \in DOMAIN name :
                  name[k] = "/" /\ \A j \in 1..(k - 1) : name[j] # "/"
       IN <<SubSeq(name, 1, i - 1)>> \o split(SubSeq(name, i + 1, Len(name)))

\* path.normalize: empty and "." segments are dropped, ".." drops the
\* segment before it
RECURSIVE normalize(_)
normalize(segments) ==
  IF segments = <<>>
  THEN <<>>
  ELSE LET front == normalize(SubSeq(segments, 1, Len(segments) - 1))
           last == segments[Len(segments)]
       IN CASE last \in {<<>>, <<".">>} -> front
            [] last = <<"..">> ->
                 IF front = <<>> THEN <<>> ELSE SubSeq(front, 1, Len(front) - 1)
            [] OTHER -> Append(front, last)

\* path.join(dir, name): the two joined by a separator, then normalized
join(dir, name) == normalize(dir \o split(name))

\* the filesystem: the files that exist, with their byte lengths
Exists(d, path) == path \in DOMAIN d
Put(d, path, n) == [p \in DOMAIN d \cup {path} |-> IF p = path THEN n ELSE d[p]]
Remove(d, path) == [p \in DOMAIN d \ {path} |-> d[p]]
NoPath == <<>>
NoDisk == [p \in {} |-> 0]

\* multer's errors
LimitFileSize == Error("MulterError", <<"File too large">>, Undefined, TRUE)
LimitUnexpectedFile == Error("MulterError", <<"Unexpected field">>, Undefined, TRUE)
\* an error of the request stream or of the memory storage while the upload
\* is buffered; multer hands it to next(err) as it is
StreamError == Error("Error", <<"Request aborted">>, Undefined, FALSE)

FileOf(part) ==
  [originalname |-> part.originalname, mimetype |-> part.mimetype,
   size |-> part.size]

\* ================================================================ server.js
VARIABLES
  pc,             \* where each request stands in the middleware chain
  reqFile,        \* req.file
  nextErr,        \* the error handed to next(err)
  tempInputPath,  \* the staged path of the request
  disk,           \* the scratch directory
  res,            \* the response written
  sends,          \* how many responses were written
  writes,         \* how many fs.writeFile calls were issued
  calls,          \* how many removeBackground calls were issued
  stats,          \* how many fs.stat calls were issued
  unlinks,        \* how many fs.unlink calls were issued
  config,         \* the configuration passed to removeBackground
  blob,           \* the Blob removeBackground resolved to
  caught,         \* the error the catch block received
  log             \* console output of the request

serverVars ==
  <<pc, reqFile, nextErr, tempInputPath, disk, res, sends, writes, calls,
    stats, unlinks, config, blob, caught, log>>

\* fileFilter deciding by the extension of the filename instead of the
\* declared content type
fileFilter_byExtension(file) ==
  IF basename(file.originalname) \in {<<"a.png">>, <<"notes.png">>, <<"b.webp">>}
  THEN NoError
  ELSE Error("Error",
             <<"Invalid file type. Only JPEG, PNG, and WEBP images are allowed.">>,
             Undefined, FALSE)

\* multer's fileFilter: no error to accept, or the Error to reject with
fileFilter(file) ==
  IF \/ file.mimetype = "image/jpeg"
     \/ file.mimetype = "image/png"
     \/ file.mimetype = "image/webp"
  THEN NoError
  ELSE Error("Error",
             <<"Invalid file type. Only JPEG, PNG, and WEBP images are allowed.">>,
             Undefined, FALSE)

\* upload.single("image") configured without limits
upload_noLimits(part, abort) ==
  IF part = NoPart \/ part.originalname = <<>>
  THEN [file |-> NoFile, err |-> IF abort THEN StreamError ELSE NoError]
  ELSE IF part.field # "image"
  THEN [file |-> NoFile, err |-> LimitUnexpectedFile]
  ELSE IF fileFilter(FileOf(part)) # NoError
  THEN [file |-> NoFile, err |-> fileFilter(FileOf(part))]
  ELSE IF abort
  THEN [file |-> NoFile, err |-> StreamError]
  ELSE [file |-> FileOf(part), err |-> NoError]

\* upload.single("image") with memory storage and limits.fileSize: what it
\* leaves in req.file and the error it hands to next; a part without a
\* filename is skipped
upload(part, abort) ==
  IF part = NoPart \/ part.originalname = <<>>
  THEN [file |-> NoFile, err |-> IF abort THEN StreamError ELSE NoError]
  ELSE IF part.field # "image"
  THEN [file |-> NoFile, err |-> LimitUnexpectedFile]
  ELSE IF fileFilter(FileOf(part)) # NoError
  THEN [file |-> NoFile, err |-> fileFilter(FileOf(part))]
  ELSE IF abort
  THEN [file |-> NoFile, err |-> StreamError]
  ELSE IF part.size > fileSize
  THEN [file |-> NoFile, err |-> LimitFileSize]
  ELSE [file |-> FileOf(part), err |-> NoError]

\* a filename as the client sent it, separators included
RECURSIVE unsplit(_)
unsplit(segments) ==
  IF Len(segments) <= 1
  THEN basename(segments)
  ELSE Head(segments) \o <<"/">> \o unsplit(Tail(segments))

\* the staged filename built from the client's filename as it is
tempInputFilename_unsanitized(uniqueSuffix, originalname) ==
  <<"input-", Hex(uniqueSuffix), "-">> \o unsplit(originalname)

\* `input-${uniqueSuffix}-${safeOriginalName}`
tempInputFilename(uniqueSuffix, originalname) ==
  <<"input-", Hex(uniqueSuffix), "-">> \o basename(originalname)

\* the object passed to removeBackground as its configuration
removeBackgroundConfig == [progress |-> TRUE]

\* the success path without the fallback content type
successResponse_noFallback(b) ==
  Send(b.type, Str(<<"inline; filename=\"background-removed.png\"">>), b.bytes)

\* the response of the success path
successResponse(b) ==
  Send(IF Truthy(b.type) THEN b.type ELSE Str(<<"image/png">>),
       Str(<<"inline; filename=\"background-removed.png\"">>),
       b.bytes)

\* the response of the catch block
catchResponse(error) ==
  Json(500, JsonBody(Str(<<"Failed to remove background.">>),
                     error.message,
                     error.name,
                     IF Truthy(error.cause) THEN String(error.cause) ELSE Null))

catchLog(error) ==
  <<"Error during background removal process:", "Error Name:",
    "Error Message:", "Error Stack:">>
  \o (IF Truthy(error.cause) THEN <<"Error Cause:">> ELSE <<>>)

\* the application-level error handler: the response it writes, if any, and
\* whether it calls next(err)
errorHandler(err, headersSent) ==
  IF err.multer
  THEN [res |-> Json(400, JsonBody(Str(<<"Multer error: ">> \o Tokens(err.message)),
                                   Undefined, Undefined, Undefined)),
        writes |-> TRUE, next |-> FALSE]
  ELSE IF err # NoError
  THEN [res |-> Json(400, JsonBody(Str(<<"File upload error: ">> \o Tokens(err.message)),
                                   Undefined, Undefined, Undefined)),
        writes |-> TRUE, next |-> FALSE]
  ELSE IF ~headersSent
  THEN [res |-> Json(500, JsonBody(Str(<<"An unexpected server error occurred.">>),
                                   Undefined, Undefined, Undefined)),
        writes |-> TRUE, next |-> TRUE]
  ELSE [res |-> NoResponse, writes |-> FALSE, next |-> TRUE]

NoConfig == [progress |-> FALSE]

\* the catch block, entered with the rejection of an awaited
\* call; the finally block then issues fs.stat
Catch(r, error) ==
  /\ caught' = [caught EXCEPT ![r] = error]
  /\ log' = [log EXCEPT ![r] = @ \o catchLog(error)]
  /\ res' = [res EXCEPT ![r] = catchResponse(error)]
  /\ sends' = [sends EXCEPT ![r] = @ + 1]
  /\ stats' = [stats EXCEPT ![r] = @ + 1]
  /\ pc' = [pc EXCEPT ![r] = "stat"]

\* POST /remove-background arrives and upload.single("image") parses it
Post(r, part, abort) ==
  /\ pc[r] = "idle"
  /\ reqFile' = [reqFile EXCEPT ![r] = upload(part, abort).file]
  /\ nextErr' = [nextErr EXCEPT ![r] = upload(part, abort).err]
  /\ pc' = [pc EXCEPT ![r] =
              IF upload(part, abort).err # NoError THEN "errorHandler" ELSE "route"]
  /\ UNCHANGED <<tempInputPath, disk, res, sends, writes, calls, stats,
                 unlinks, config, blob, caught, log>>

\* app.use((err, req, res, next) => ...)
ErrorHandler(r) ==
  /\ pc[r] = "errorHandler"
  /\ LET h == errorHandler(nextErr[r], sends[r] > 0) IN
       /\ res' = [res EXCEPT ![r] = IF h.writes THEN h.res ELSE @]
       /\ sends' = [sends EXCEPT ![r] = IF h.writes THEN @ + 1 ELSE @]
  /\ log' = [log EXCEPT ![r] = Append(@, "Global error handler caught an error:")]
  /\ pc' = [pc EXCEPT ![r] = "done"]
  /\ UNCHANGED <<reqFile, nextErr, tempInputPath, disk, writes, calls,
                 stats, unlinks, config, blob, caught>>

\* a missing-file check that also refuses an empty file
Route_rejectsEmpty(r, uniqueSuffix) ==
  /\ pc[r] = "route"
  /\ IF reqFile[r] = NoFile \/ reqFile[r].size = 0
     THEN /\ res' = [res EXCEPT ![r] =
                       Json(400, JsonBody(Str(<<"No image file uploaded.">>),
                                          Undefined, Undefined, Undefined))]
          /\ sends' = [sends EXCEPT ![r] = @ + 1]
          /\ pc' = [pc EXCEPT ![r] = "done"]
          /\ UNCHANGED <<tempInputPath, writes, log>>
     ELSE /\ tempInputPath' = [tempInputPath EXCEPT ![r] =
               join(tempDir, tempInputFilename(uniqueSuffix, reqFile[r].originalname))]
          /\ log' = [log EXCEPT ![r] = @ \o
               <<"Processing image:", "Writing uploaded file to temporary path:">>]
          /\ writes' = [writes EXCEPT ![r] = @ + 1]
          /\ pc' = [pc EXCEPT ![r] = "writeFile"]
          /\ UNCHANGED <<res, sends>>
  /\ UNCHANGED <<reqFile, nextErr, disk, calls, stats, unlinks, config, blob,
                 caught>>

\* the route handler up to its first await: the missing-file check, the
\* staged path, the call of fs.writeFile
Route(r, uniqueSuffix) ==
  /\ pc[r] = "route"
  /\ IF reqFile[r] = NoFile
     THEN /\ res' = [res EXCEPT ![r] =
                       Json(400, JsonBody(Str(<<"No image file uploaded.">>),
                                          Undefined, Undefined, Undefined))]
          /\ sends' = [sends EXCEPT ![r] = @ + 1]
          /\ pc' = [pc EXCEPT ![r] = "done"]
          /\ UNCHANGED <<tempInputPath, writes, log>>
     ELSE /\ tempInputPath' = [tempInputPath EXCEPT ![r] =
               join(tempDir, tempInputFilename(uniqueSuffix, reqFile[r].originalname))]
          /\ log' = [log EXCEPT ![r] = @ \o
               <<"Processing image:", "Writing uploaded file to temporary path:">>]
          /\ writes' = [writes EXCEPT ![r] = @ + 1]
          /\ pc' = [pc EXCEPT ![r] = "writeFile"]
          /\ UNCHANGED <<res, sends>>
  /\ UNCHANGED <<reqFile, nextErr, disk, calls, stats, unlinks, config, blob,
                 caught>>

\* removeBackground called whether or not the write succeeded
WriteFile_invokesRegardless(r, o) ==
  /\ pc[r] = "writeFile"
  /\ disk' = CASE o = "ok" -> Put(disk, tempInputPath[r], reqFile[r].size)
               [] o = "partial" -> Put(disk, tempInputPath[r], 0)
               [] OTHER -> disk
  /\ calls' = [calls EXCEPT ![r] = @ + 1]
  /\ config' = [config EXCEPT ![r] = removeBackgroundConfig]
  /\ pc' = [pc EXCEPT ![r] = "removeBackground"]
  /\ UNCHANGED <<res, sends, stats, caught, log>>
  /\ UNCHANGED <<reqFile, nextErr, tempInputPath, writes, unlinks, blob>>

\* fs.writeFile settles; on success removeBackground is called
WriteFile(r, o) ==
  /\ pc[r] = "writeFile"
  /\ disk' = CASE o = "ok" -> Put(disk, tempInputPath[r], reqFile[r].size)
               [] o = "partial" -> Put(disk, tempInputPath[r], 0)
               [] OTHER -> disk
  /\ IF o = "ok"
     THEN /\ log' = [log EXCEPT ![r] = @ \o
               <<"Successfully wrote to",
                 "Calling @imgly/background-removal-node with file path:",
                 "Calling @imgly/background-removal-node with file URL:">>]
          /\ calls' = [calls EXCEPT ![r] = @ + 1]
          /\ config' = [config EXCEPT ![r] = removeBackgroundConfig]
          /\ pc' = [pc EXCEPT ![r] = "removeBackground"]
          /\ UNCHANGED <<res, sends, stats, caught>>
     ELSE /\ Catch(r, WriteError(o))
          /\ UNCHANGED <<calls, config>>
  /\ UNCHANGED <<reqFile, nextErr, tempInputPath, writes, unlinks, blob>>

\* removeBackground called once more when its first call fails
RemoveBackground_retry(r, o) ==
  /\ pc[r] = "removeBackground"
  /\ IF o.ok
     THEN /\ blob' = [blob EXCEPT ![r] = o.blob]
          /\ log' = [log EXCEPT ![r] = Append(@, "Background removal successful.")]
          /\ pc' = [pc EXCEPT ![r] = "arrayBuffer"]
          /\ UNCHANGED <<res, sends, stats, caught, calls>>
     ELSE IF calls[r] < 2
     THEN /\ calls' = [calls EXCEPT ![r] = @ + 1]
          /\ UNCHANGED <<pc, blob, log, res, sends, stats, caught>>
     ELSE /\ Catch(r, o.error)
          /\ UNCHANGED <<blob, calls>>
  /\ UNCHANGED <<reqFile, nextErr, tempInputPath, disk, writes, unlinks, config>>

\* the staged file deleted as soon as removeBackground has settled, before
\* anything is answered
RemoveBackground_unlinksFirst(r, o) ==
  /\ pc[r] = "removeBackground"
  /\ unlinks' = [unlinks EXCEPT ![r] = @ + 1]
  /\ disk' = Remove(disk, tempInputPath[r])
  /\ IF o.ok
     THEN /\ blob' = [blob EXCEPT ![r] = o.blob]
          /\ log' = [log EXCEPT ![r] = Append(@, "Background removal successful.")]
          /\ pc' = [pc EXCEPT ![r] = "arrayBuffer"]
          /\ UNCHANGED <<res, sends, stats, caught>>
     ELSE /\ Catch(r, o.error)
          /\ UNCHANGED blob
  /\ UNCHANGED <<reqFile, nextErr, tempInputPath, writes, calls, config>>

\* removeBackground settles; on success blob.arrayBuffer() is called
RemoveBackground(r, o) ==
  /\ pc[r] = "removeBackground"
  /\ IF o.ok
     THEN /\ blob' = [blob EXCEPT ![r] = o.blob]
          /\ log' = [log EXCEPT ![r] = Append(@, "Background removal successful.")]
          /\ pc' = [pc EXCEPT ![r] = "arrayBuffer"]
          /\ UNCHANGED <<res, sends, stats, caught>>
     ELSE /\ Catch(r, o.error)
          /\ UNCHANGED blob
  /\ UNCHANGED <<reqFile, nextErr, tempInputPath, disk, writes, calls, unlinks,
                 config>>

\* blob.arrayBuffer() settles; on success the image is sent; the finally
\* block then issues fs.stat
ArrayBuffer(r, ok) ==
  /\ pc[r] = "arrayBuffer"
  /\ IF ok
     THEN /\ res' = [res EXCEPT ![r] = successResponse(blob[r])]
          /\ sends' = [sends EXCEPT ![r] = @ + 1]
          /\ stats' = [stats EXCEPT ![r] = @ + 1]
          /\ pc' = [pc EXCEPT ![r] = "stat"]
          /\ UNCHANGED <<caught, log>>
     ELSE Catch(r, DecodeError)
  /\ UNCHANGED <<reqFile, nextErr, tempInputPath, disk, writes, calls, unlinks,
                 config, blob>>

\* a cleanup that waits until no other request is being handled
Stat_waitsForQuiescence(r, ok) ==
  /\ pc[r] = "stat"
  /\ \A q \in Requests \ {r} : pc[q] \in {"idle", "done"}
  /\ IF ok /\ Exists(disk, tempInputPath[r])
     THEN /\ log' = [log EXCEPT ![r] = Append(@, "Deleting temporary file:")]
          /\ unlinks' = [unlinks EXCEPT ![r] = @ + 1]
          /\ pc' = [pc EXCEPT ![r] = "unlink"]
     ELSE /\ pc' = [pc EXCEPT ![r] = "done"]
          /\ UNCHANGED <<log, unlinks>>
  /\ UNCHANGED <<reqFile, nextErr, tempInputPath, disk, res, sends, writes,
                 calls, stats, config, blob, caught>>

\* fs.stat(tempInputPath).catch(() => false) settles; when it found the file
\* fs.unlink is called
Stat(r, ok) ==
  /\ pc[r] = "stat"
  /\ IF ok /\ Exists(disk, tempInputPath[r])
     THEN /\ log' = [log EXCEPT ![r] = Append(@, "Deleting temporary file:")]
          /\ unlinks' = [unlinks EXCEPT ![r] = @ + 1]
          /\ pc' = [pc EXCEPT ![r] = "unlink"]
     ELSE /\ pc' = [pc EXCEPT ![r] = "done"]
          /\ UNCHANGED <<log, unlinks>>
  /\ UNCHANGED <<reqFile, nextErr, tempInputPath, disk, res, sends, writes,
                 calls, stats, config, blob, caught>>

\* a cleanup whose failure is answered to the client instead of logged
Unlink_answersFailure(r, ok) ==
  /\ pc[r] = "unlink"
  /\ IF ok /\ Exists(disk, tempInputPath[r])
     THEN /\ disk' = Remove(disk, tempInputPath[r])
          /\ log' = [log EXCEPT ![r] = Append(@, "Successfully deleted")]
          /\ UNCHANGED <<res, sends>>
     ELSE /\ res' = [res EXCEPT ![r] =
               Json(500, JsonBody(Str(<<"Failed to delete temporary file.">>),
                                  Undefined, Undefined, Undefined))]
          /\ sends' = [sends EXCEPT ![r] = @ + 1]
          /\ UNCHANGED <<disk, log>>
  /\ pc' = [pc EXCEPT ![r] = "done"]
  /\ UNCHANGED <<reqFile, nextErr, tempInputPath, writes, calls, stats, unlinks,
                 config, blob, caught>>

\* fs.unlink settles: the file is removed, or the rejection is caught and
\* logged by the inner catch
Unlink(r, ok) ==
  /\ pc[r] = "unlink"
  /\ IF ok /\ Exists(disk, tempInputPath[r])
     THEN /\ disk' = Remove(disk, tempInputPath[r])
          /\ log' = [log EXCEPT ![r] = Append(@, "Successfully deleted")]
     ELSE /\ log' = [log EXCEPT ![r] = Append(@, "Error deleting temporary file")]
          /\ UNCHANGED disk
  /\ pc' = [pc EXCEPT ![r] = "done"]
  /\ UNCHANGED <<reqFile, nextErr, tempInputPath, res, sends, writes, calls,
                 stats, unlinks, config, blob, caught>>

serverInit ==
  /\ pc = [r \in Requests |-> "idle"]
  /\ reqFile = [r \in Requests |-> NoFile]
  /\ nextErr = [r \in Requests |-> NoError]
  /\ tempInputPath = [r \in Requests |-> NoPath]
  /\ disk = NoDisk
  /\ res = [r \in Requests |-> NoResponse]
  /\ sends = [r \in Requests |-> 0]
  /\ writes = [r \in Requests |-> 0]
  /\ calls = [r \in Requests |-> 0]
  /\ stats = [r \in Requests |-> 0]
  /\ unlinks = [r \in Requests |-> 0]
  /\ config = [r \in Requests |-> NoConfig]
  /\ blob = [r \in Requests |-> NoBlob]
  /\ caught = [r \in Requests |-> NoError]
  /\ log = [r \in Requests |-> <<>>]

\* ===================================================== src/unnamed/part_000
VARIABLES
  vPc,             \* where each request stands in the middleware chain
  vReqFile,        \* req.file
  vNextErr,        \* the error handed to next(err)
  vTempInputPath,  \* the staged path of the request
  vDisk,           \* the scratch directory
  vRes,            \* the response written
  vSends,          \* how many responses were written
  vWrites,         \* how many fs.writeFile calls were issued
  vCalls,          \* how many removeBackground calls were issued
  vStats,          \* how many fs.stat calls were issued
  vUnlinks,        \* how many fs.unlink calls were issued
  vConfig,         \* the configuration passed to removeBackground
  vBlob,           \* the Blob removeBackground resolved to
  vCaught,         \* the error the catch block received
  vLog             \* console output of the request

variantVars ==
  <<vPc, vReqFile, vNextErr, vTempInputPath, vDisk, vRes, vSends, vWrites,
    vCalls, vStats, vUnlinks, vConfig, vBlob, vCaught, vLog>>

\* multer's fileFilter: no error to accept, or the Error to reject with
vFileFilter(file) ==
  IF \/ file.mimetype = "image/jpeg"
     \/ file.mimetype = "image/png"
     \/ file.mimetype = "image/webp"
  THEN NoError
  ELSE Error("Error",
             <<"Invalid file type. Only JPEG, PNG, and WEBP images are allowed.">>,
             Undefined, FALSE)

\* upload.single("image") with memory storage and limits.fileSize: what it
\* leaves in req.file and the error it hands to next; a part without a
\* filename is skipped
vUpload(part, abort) ==
  IF part = NoPart \/ part.originalname = <<>>
  THEN [file |-> NoFile, err |-> IF abort THEN StreamError ELSE NoError]
  ELSE IF part.field # "image"
  THEN [file |-> NoFile, err |-> LimitUnexpectedFile]
  ELSE IF vFileFilter(FileOf(part)) # NoError
  THEN [file |-> NoFile, err |-> vFileFilter(FileOf(part))]
  ELSE IF abort
  THEN [file |-> NoFile, err |-> StreamError]
  ELSE IF part.size > fileSize
  THEN [file |-> NoFile, err |-> LimitFileSize]
  ELSE [file |-> FileOf(part), err |-> NoError]

\* `input-${uniqueSuffix}-${safeOriginalName}`
vTempInputFilename(uniqueSuffix, originalname) ==
  <<"input-", Hex(uniqueSuffix), "-">> \o basename(originalname)

\* the model selector
imglyModelToUse == "small"

\* the object passed to removeBackground as its configuration
imglyConfig == [model |-> imglyModelToUse, progress |-> TRUE]

\* the response of the success path
vSuccessResponse(b) ==
  Send(IF Truthy(b.type) THEN b.type ELSE Str(<<"image/png">>),
       Str(<<"inline; filename=\"background-removed.png\"">>),
       b.bytes)

\* a catch block that leaves the cause out of the body
vCatchResponse_noCause(error) ==
  Json(500, JsonBody(Str(<<"Failed to remove background.">>),
                     error.message, error.name, Undefined))

\* the response of the catch block
vCatchResponse(error) ==
  Json(500, JsonBody(Str(<<"Failed to remove background.">>),
                     error.message,
                     error.name,
                     IF Truthy(error.cause) THEN String(error.cause) ELSE Null))

vCatchLog(error) ==
  <<"Error during background removal process:", "Error Name:",
    "Error Message:", "Error Stack:">>
  \o (IF Truthy(error.cause) THEN <<"Error Cause:">> ELSE <<>>)

\* the application-level error handler: the response it writes, if any, and
\* whether it calls next(err)
vErrorHandler(err, headersSent) ==
  IF err.multer
  THEN [res |-> Json(400, JsonBody(Str(<<"Multer error: ">> \o Tokens(err.message)),
                                   Undefined, Undefined, Undefined)),
        writes |-> TRUE, next |-> FALSE]
  ELSE IF err # NoError
  THEN [res |-> Json(400, JsonBody(Str(<<"File upload error: ">> \o Tokens(err.message)),
                                   Undefined, Undefined, Undefined)),
        writes |-> TRUE, next |-> FALSE]
  ELSE IF ~headersSent
  THEN [res |-> Json(500, JsonBody(Str(<<"An unexpected server error occurred.">>),
                                   Undefined, Undefined, Undefined)),
        writes |-> TRUE, next |-> TRUE]
  ELSE [res |-> NoResponse, writes |-> FALSE, next |-> TRUE]

vNoConfig == [model |-> "", progress |-> FALSE]

\* the catch block, entered with the rejection of an awaited
\* call; the finally block then issues fs.stat
VCatch(r, error) ==
  /\ vCaught' = [vCaught EXCEPT ![r] = error]
  /\ vLog' = [vLog EXCEPT ![r] = @ \o vCatchLog(error)]
  /\ vRes' = [vRes EXCEPT ![r] = vCatchResponse(error)]
  /\ vSends' = [vSends EXCEPT ![r] = @ + 1]
  /\ vStats' = [vStats EXCEPT ![r] = @ + 1]
  /\ vPc' = [vPc EXCEPT ![r] = "stat"]

\* POST /remove-background arrives and upload.single("image") parses it
VPost(r, part, abort) ==
  /\ vPc[r] = "idle"
  /\ vReqFile' = [vReqFile EXCEPT ![r] = vUpload(part, abort).file]
  /\ vNextErr' = [vNextErr EXCEPT ![r] = vUpload(part, abort).err]
  /\ vPc' = [vPc EXCEPT ![r] =
              IF vUpload(part, abort).err # NoError THEN "errorHandler" ELSE "route"]
  /\ UNCHANGED <<vTempInputPath, vDisk, vRes, vSends, vWrites, vCalls, vStats,
                 vUnlinks, vConfig, vBlob, vCaught, vLog>>

\* app.use((err, req, res, next) => ...)
VErrorHandler(r) ==
  /\ vPc[r] = "errorHandler"
  /\ LET h == vErrorHandler(vNextErr[r], vSends[r] > 0) IN
       /\ vRes' = [vRes EXCEPT ![r] = IF h.writes THEN h.res ELSE @]
       /\ vSends' = [vSends EXCEPT ![r] = IF h.writes THEN @ + 1 ELSE @]
  /\ vLog' = [vLog EXCEPT ![r] = Append(@, "Global error handler caught an error:")]
  /\ vPc' = [vPc EXCEPT ![r] = "done"]
  /\ UNCHANGED <<vReqFile, vNextErr, vTempInputPath, vDisk, vWrites, vCalls,
                 vStats, vUnlinks, vConfig, vBlob, vCaught>>

\* the route handler up to its first await: the missing-file check, the
\* staged path, the call of fs.writeFile
VRoute(r, uniqueSuffix) ==
  /\ vPc[r] = "route"
  /\ IF vReqFile[r] = NoFile
     THEN /\ vRes' = [vRes EXCEPT ![r] =
                       Json(400, JsonBody(Str(<<"No image file uploaded.">>),
                                          Undefined, Undefined, Undefined))]
          /\ vSends' = [vSends EXCEPT ![r] = @ + 1]
          /\ vPc' = [vPc EXCEPT ![r] = "done"]
          /\ UNCHANGED <<vTempInputPath, vWrites, vLog>>
     ELSE /\ vTempInputPath' = [vTempInputPath EXCEPT ![r] =
               join(tempDir, vTempInputFilename(uniqueSuffix, vReqFile[r].originalname))]
          /\ vLog' = [vLog EXCEPT ![r] = @ \o
               <<"Processing image:", "Writing uploaded file to temporary path:">>]
          /\ vWrites' = [vWrites EXCEPT ![r] = @ + 1]
          /\ vPc' = [vPc EXCEPT ![r] = "writeFile"]
          /\ UNCHANGED <<vRes, vSends>>
  /\ UNCHANGED <<vReqFile, vNextErr, vDisk, vCalls, vStats, vUnlinks, vConfig, vBlob,
                 vCaught>>

\* fs.writeFile settles; on success removeBackground is called
VWriteFile(r, o) ==
  /\ vPc[r] = "writeFile"
  /\ vDisk' = CASE o = "ok" -> Put(vDisk, vTempInputPath[r], vReqFile[r].size)
               [] o = "partial" -> Put(vDisk, vTempInputPath[r], 0)
               [] OTHER -> vDisk
  /\ IF o = "ok"
     THEN /\ vLog' = [vLog EXCEPT ![r] = @ \o
               <<"Successfully wrote to",
                 "Calling @imgly/background-removal-node with input:",
                 "Using @imgly config:">>]
          /\ vCalls' = [vCalls EXCEPT ![r] = @ + 1]
          /\ vConfig' = [vConfig EXCEPT ![r] = imglyConfig]
          /\ vPc' = [vPc EXCEPT ![r] = "removeBackground"]
          /\ UNCHANGED <<vRes, vSends, vStats, vCaught>>
     ELSE /\ VCatch(r, WriteError(o))
          /\ UNCHANGED <<vCalls, vConfig>>
  /\ UNCHANGED <<vReqFile, vNextErr, vTempInputPath, vWrites, vUnlinks, vBlob>>

\* removeBackground settles; on success blob.arrayBuffer() is called
VRemoveBackground(r, o) ==
  /\ vPc[r] = "removeBackground"
  /\ IF o.ok
     THEN /\ vBlob' = [vBlob EXCEPT ![r] = o.blob]
          /\ vLog' = [vLog EXCEPT ![r] = Append(@, "Background removal successful.")]
          /\ vPc' = [vPc EXCEPT ![r] = "arrayBuffer"]
          /\ UNCHANGED <<vRes, vSends, vStats, vCaught>>
     ELSE /\ VCatch(r, o.error)
          /\ UNCHANGED vBlob
  /\ UNCHANGED <<vReqFile, vNextErr, vTempInputPath, vDisk, vWrites, vCalls, vUnlinks,
                 vConfig>>

\* blob.arrayBuffer() settles; on success the image is sent; the finally
\* block then issues fs.stat
VArrayBuffer(r, ok) ==
  /\ vPc[r] = "arrayBuffer"
  /\ IF ok
     THEN /\ vRes' = [vRes EXCEPT ![r] = vSuccessResponse(vBlob[r])]
          /\ vSends' = [vSends EXCEPT ![r] = @ + 1]
          /\ vStats' = [vStats EXCEPT ![r] = @ + 1]
          /\ vPc' = [vPc EXCEPT ![r] = "stat"]
          /\ UNCHANGED <<vCaught, vLog>>
     ELSE VCatch(r, DecodeError)
  /\ UNCHANGED <<vReqFile, vNextErr, vTempInputPath, vDisk, vWrites, vCalls, vUnlinks,
                 vConfig, vBlob>>

\* fs.stat(tempInputPath).catch(() => false) settles; when it found the file
\* fs.unlink is called
VStat(r, ok) ==
  /\ vPc[r] = "stat"
  /\ IF ok /\ Exists(vDisk, vTempInputPath[r])
     THEN /\ vLog' = [vLog EXCEPT ![r] = Append(@, "Deleting temporary file:")]
          /\ vUnlinks' = [vUnlinks EXCEPT ![r] = @ + 1]
          /\ vPc' = [vPc EXCEPT ![r] = "unlink"]
     ELSE /\ vPc' = [vPc EXCEPT ![r] = "done"]
          /\ UNCHANGED <<vLog, vUnlinks>>
  /\ UNCHANGED <<vReqFile, vNextErr, vTempInputPath, vDisk, vRes, vSends, vWrites,
                 vCalls, vStats, vConfig, vBlob, vCaught>>

\* fs.unlink settles: the file is removed, or the rejection is caught and
\* logged by the inner catch
VUnlink(r, ok) ==
  /\ vPc[r] = "unlink"
  /\ IF ok /\ Exists(vDisk, vTempInputPath[r])
     THEN /\ vDisk' = Remove(vDisk, vTempInputPath[r])
          /\ vLog' = [vLog EXCEPT ![r] = Append(@, "Successfully deleted")]
     ELSE /\ vLog' = [vLog EXCEPT ![r] = Append(@, "Error deleting temporary file")]
          /\ UNCHANGED vDisk
  /\ vPc' = [vPc EXCEPT ![r] = "done"]
  /\ UNCHANGED <<vReqFile, vNextErr, vTempInputPath, vRes, vSends, vWrites, vCalls,
                 vStats, vUnlinks, vConfig, vBlob, vCaught>>

variantInit ==
  /\ vPc = [r \in Requests |-> "idle"]
  /\ vReqFile = [r \in Requests |-> NoFile]
  /\ vNextErr = [r \in Requests |-> NoError]
  /\ vTempInputPath = [r \in Requests |-> NoPath]
  /\ vDisk = NoDisk
  /\ vRes = [r \in Requests |-> NoResponse]
  /\ vSends = [r \in Requests |-> 0]
  /\ vWrites = [r \in Requests |-> 0]
  /\ vCalls = [r \in Requests |-> 0]
  /\ vStats = [r \in Requests |-> 0]
  /\ vUnlinks = [r \in Requests |-> 0]
  /\ vConfig = [r \in Requests |-> vNoConfig]
  /\ vBlob = [r \in Requests |-> NoBlob]
  /\ vCaught = [r \in Requests |-> NoError]
  /\ vLog = [r \in Requests |-> <<>>]


\* ========================================================== the two servers
VARIABLES
  sent,           \* what the client of each request posted
  outcome         \* how the awaited calls of each request settled

vars == <<serverVars, variantVars, sent, outcome>>

NoneSent == [part |-> NoPart, abort |-> FALSE]
NoRemoval == [ok |-> FALSE, blob |-> NoBlob, error |-> NoError]
NoOutcome ==
  [write |-> "none", removal |-> NoRemoval, removed |-> "none",
   decode |-> "none"]

Init ==
  /\ serverInit
  /\ variantInit
  /\ sent = [r \in Requests |-> NoneSent]
  /\ outcome = [r \in Requests |-> NoOutcome]

\* The two servers run side by side: each step is one request's next event
\* (its arrival, or one awaited call settling), taken by every server that
\* is waiting for it, with the same input or outcome.
Arrive(r) ==
  \E part \in Uploads, abort \in BOOLEAN :
    /\ "idle" \in {pc[r], vPc[r]}
    /\ IF pc[r] = "idle" THEN Post(r, part, abort) ELSE UNCHANGED serverVars
    /\ IF vPc[r] = "idle" THEN VPost(r, part, abort) ELSE UNCHANGED variantVars
    /\ sent' = [sent EXCEPT ![r] = [part |-> part, abort |-> abort]]
    /\ UNCHANGED outcome

HandleError(r) ==
  /\ "errorHandler" \in {pc[r], vPc[r]}
  /\ IF pc[r] = "errorHandler" THEN ErrorHandler(r) ELSE UNCHANGED serverVars
  /\ IF vPc[r] = "errorHandler" THEN VErrorHandler(r) ELSE UNCHANGED variantVars
  /\ UNCHANGED <<sent, outcome>>

EnterRoute(r) ==
  \E n \in Suffixes :
    /\ "route" \in {pc[r], vPc[r]}
    /\ IF pc[r] = "route" THEN Route(r, n) ELSE UNCHANGED serverVars
    /\ IF vPc[r] = "route" THEN VRoute(r, n) ELSE UNCHANGED variantVars
    /\ UNCHANGED <<sent, outcome>>

WriteSettles(r) ==
  \E o \in WriteOutcomes :
    /\ "writeFile" \in {pc[r], vPc[r]}
    /\ IF pc[r] = "writeFile" THEN WriteFile(r, o) ELSE UNCHANGED serverVars
    /\ IF vPc[r] = "writeFile" THEN VWriteFile(r, o) ELSE UNCHANGED variantVars
    /\ outcome' = [outcome EXCEPT ![r].write = o]
    /\ UNCHANGED sent

BackendSettles(r) ==
  \E o \in BackendOutcomes :
    /\ "removeBackground" \in {pc[r], vPc[r]}
    /\ IF pc[r] = "removeBackground"
       THEN RemoveBackground(r, o) ELSE UNCHANGED serverVars
    /\ IF vPc[r] = "removeBackground"
       THEN VRemoveBackground(r, o) ELSE UNCHANGED variantVars
    /\ outcome' = [outcome EXCEPT ![r].removal = o,
                                  ![r].removed = IF o.ok THEN "ok" ELSE "fail"]
    /\ UNCHANGED sent

DecodeSettles(r) ==
  \E ok \in BOOLEAN :
    /\ "arrayBuffer" \in {pc[r], vPc[r]}
    /\ IF pc[r] = "arrayBuffer" THEN ArrayBuffer(r, ok) ELSE UNCHANGED serverVars
    /\ IF vPc[r] = "arrayBuffer"
       THEN VArrayBuffer(r, ok) ELSE UNCHANGED variantVars
    /\ outcome' = [outcome EXCEPT ![r].decode = IF ok THEN "ok" ELSE "fail"]
    /\ UNCHANGED sent

StatSettles(r) ==
  \E ok \in BOOLEAN :
    /\ "stat" \in {pc[r], vPc[r]}
    /\ IF pc[r] = "stat" THEN Stat(r, ok) ELSE UNCHANGED serverVars
    /\ IF vPc[r] = "stat" THEN VStat(r, ok) ELSE UNCHANGED variantVars
    /\ UNCHANGED <<sent, outcome>>

UnlinkSettles(r) ==
  \E ok \in BOOLEAN :
    /\ "unlink" \in {pc[r], vPc[r]}
    /\ IF pc[r] = "unlink" THEN Unlink(r, ok) ELSE UNCHANGED serverVars
    /\ IF vPc[r] = "unlink" THEN VUnlink(r, ok) ELSE UNCHANGED variantVars
    /\ UNCHANGED <<sent, outcome>>

Next ==
  \E r \in Requests :
    \/ Arrive(r)
    \/ HandleError(r)
    \/ EnterRoute(r)
    \/ WriteSettles(r)
    \/ BackendSettles(r)
    \/ DecodeSettles(r)
    \/ StatSettles(r)
    \/ UnlinkSettles(r)

Spec == Init /\ [][Next]_vars

\* Every call a handler awaits settles, and the event loop runs every
\* handler and middleware that is ready: each step of a request that can be
\* taken is eventually taken.  Nothing obliges a request to arrive.
Fairness ==
  \A r \in Requests :
    /\ WF_vars(HandleError(r))
    /\ WF_vars(EnterRoute(r))
    /\ WF_vars(WriteSettles(r))
    /\ WF_vars(BackendSettles(r))
    /\ WF_vars(DecodeSettles(r))
    /\ WF_vars(StatSettles(r))
    /\ WF_vars(UnlinkSettles(r))

FairSpec == Spec /\ Fairness

\* =================================================================== claims
AllowedTypes == {"image/jpeg", "image/png", "image/webp"}

\* the request was answered with this status and a JSON body that has an
\* `error` string
JsonError(response, code) ==
  /\ response.status = code
  /\ TypeOf(response.json.error) = "string"
  /\ Tokens(response.json.error) # <<>>

\* the request is between its fs.writeFile call and the return of its handler
InFlight(pc_, r) ==
  pc_[r] \in {"writeFile", "removeBackground", "arrayBuffer", "stat", "unlink"}

\* ----------------------------------------------------------------------- C1
StagedDuringInvocation(pc_, path_, disk_) ==
  \A r \in Requests : pc_[r] = "removeBackground" => Exists(disk_, path_[r])

AbsentAfterReturn(pc_, writes_, path_, disk_) ==
  \A r \in Requests :
    pc_[r] = "done" /\ writes_[r] > 0 => ~Exists(disk_, path_[r])

\* C1: for every request that reached staging, the staged file exists for
\* the whole of the backend invocation and is absent from the scratch
\* directory once the handler has returned, whatever the outcome.
C1_StagedFileLifecycle ==
  /\ StagedDuringInvocation(pc, tempInputPath, disk)
  /\ AbsentAfterReturn(pc, writes, tempInputPath, disk)
  /\ StagedDuringInvocation(vPc, vTempInputPath, vDisk)
  /\ AbsentAfterReturn(vPc, vWrites, vTempInputPath, vDisk)

\* ----------------------------------------------------------------------- C2
Disallowed(r) ==
  /\ sent[r].part # NoPart
  /\ sent[r].part.mimetype \notin AllowedTypes

RejectedUnstaged(r, pc_, res_, path_, writes_, calls_) ==
  /\ writes_[r] = 0
  /\ calls_[r] = 0
  /\ path_[r] = NoPath
  /\ pc_[r] \in {"errorHandler", "done"}
  /\ pc_[r] = "done" => JsonError(res_[r], 400)

\* C2: an upload whose declared MIME type is not image/jpeg, image/png or
\* image/webp, whatever its filename, is answered 400 with a JSON `error`;
\* no staged file is created and the backend is never invoked for it.
C2_DisallowedTypeRejected ==
  \A r \in Requests :
    Disallowed(r) =>
      /\ RejectedUnstaged(r, pc, res, tempInputPath, writes, calls)
      /\ RejectedUnstaged(r, vPc, vRes, vTempInputPath, vWrites, vCalls)

\* a text/plain upload named like a PNG has been answered 400
C2_Witness ==
  \E r \in Requests :
    /\ sent[r].part.mimetype = "text/plain"
    /\ sent[r].part.originalname = << <<"notes.png">> >>
    /\ pc[r] = "done" /\ vPc[r] = "done"
    /\ res[r].status = 400 /\ vRes[r].status = 400

\* ----------------------------------------------------------------------- C3
Oversize(r) == sent[r].part.size > fileSize
NoImageFile(r) == pc[r] # "idle" /\ vPc[r] # "idle" /\ sent[r].part.field # "image"

RejectedBeforeStaging(r, pc_, res_, sends_, writes_, calls_) ==
  /\ writes_[r] = 0
  /\ calls_[r] = 0
  /\ pc_[r] \in {"errorHandler", "route", "done"}
  /\ pc_[r] = "done" => JsonError(res_[r], 400) /\ sends_[r] = 1

\* C3: an upload over the 10 MB ceiling, and a request with no file in the
\* `image` field, is answered 400 with a JSON `error`, before any temp-file
\* write and before any backend call.
C3_OversizeOrMissingRejected ==
  \A r \in Requests :
    Oversize(r) \/ NoImageFile(r) =>
      /\ RejectedBeforeStaging(r, pc, res, sends, writes, calls)
      /\ RejectedBeforeStaging(r, vPc, vRes, vSends, vWrites, vCalls)

\* one request over the ceiling and one without a file have been answered
C3_Witness ==
  \E r1, r2 \in Requests :
    /\ sent[r1].part.mimetype \in AllowedTypes /\ Oversize(r1)
    /\ pc[r1] = "done" /\ res[r1].status = 400
    /\ sent[r2].part = NoPart
    /\ pc[r2] = "done" /\ res[r2].status = 400

\* ----------------------------------------------------------------------- C4
DistinctStagedPaths(pc_, path_) ==
  \A r1, r2 \in Requests :
    r1 # r2 /\ InFlight(pc_, r1) /\ InFlight(pc_, r2) => path_[r1] # path_[r2]

\* C4: any two requests in flight at the same time have different staged
\* paths, so that none writes, reads or deletes the staged file of another.
C4_UniqueStagedPaths ==
  /\ DistinctStagedPaths(pc, tempInputPath)
  /\ DistinctStagedPaths(vPc, vTempInputPath)

\* ----------------------------------------------------------------------- C5
Succeeded(r) == outcome[r].removed = "ok" /\ outcome[r].decode = "ok"

ImageAnswered(r, pc_, res_, sends_) ==
  /\ pc_[r] \in {"stat", "unlink", "done"}
  /\ sends_[r] = 1
  /\ res_[r].status = 200
  /\ res_[r].contentType =
       IF outcome[r].removal.blob.type = Str(<<>>)
       THEN Str(<<"image/png">>)
       ELSE outcome[r].removal.blob.type
  /\ res_[r].disposition = Str(<<"inline; filename=\"background-removed.png\"">>)
  /\ res_[r].bytes = outcome[r].removal.blob.bytes
  /\ Len(res_[r].bytes) > 0

\* C5: when the backend invocation succeeds the response has status 200, the
\* Content-Type the backend declared (image/png when it declared none), the
\* Content-Disposition inline; filename="background-removed.png", and the
\* backend's bytes, more than none, as its body.
C5_SuccessResponse ==
  \A r \in Requests :
    Succeeded(r) =>
      /\ ImageAnswered(r, pc, res, sends)
      /\ ImageAnswered(r, vPc, vRes, vSends)

\* a result without a declared type has been sent as image/png
C5_Witness ==
  \E r \in Requests :
    /\ Succeeded(r)
    /\ outcome[r].removal.blob.type = Str(<<>>)
    /\ pc[r] = "done" /\ vPc[r] = "done"
    /\ res[r].contentType = Str(<<"image/png">>)
    /\ vRes[r].contentType = Str(<<"image/png">>)

\* ----------------------------------------------------------------------- C6
BackendFailed(r) == outcome[r].removed = "fail" \/ outcome[r].decode = "fail"

FailureOf(r) ==
  IF outcome[r].removed = "fail" THEN outcome[r].removal.error ELSE DecodeError

ErrorForwarded(r, res_) ==
  /\ JsonError(res_[r], 500)
  /\ res_[r].json.details = FailureOf(r).message
  /\ res_[r].json.name = FailureOf(r).name
  /\ FailureOf(r).cause # Undefined =>
       res_[r].json.cause = String(FailureOf(r).cause)

\* C6: when the backend invocation or the decoding of its result fails, the
\* response has status 500 and a JSON body with an `error` summary, with the
\* error's message and name unchanged as `details` and `name`, and with the
\* stringified cause as `cause` when the error has one.
C6_FailureResponse ==
  \A r \in Requests :
    BackendFailed(r) => ErrorForwarded(r, res) /\ ErrorForwarded(r, vRes)

\* ----------------------------------------------------------------------- C7
BackendCalls(calls_) ==
  \A r \in Requests : calls_[r] = IF outcome[r].write = "ok" THEN 1 ELSE 0

\* C7: a request calls the backend exactly once if it passed validation and
\* staging and never otherwise, and never a second time, whatever the outcome
\* of the first call.
C7_OneBackendCall == BackendCalls(calls) /\ BackendCalls(vCalls)

\* one request whose only backend call failed, one that never called
C7_Witness ==
  \E r1, r2 \in Requests :
    /\ pc[r1] = "done" /\ outcome[r1].removed = "fail" /\ calls[r1] = 1
    /\ pc[r2] = "done" /\ outcome[r2].write = "partial" /\ calls[r2] = 0

\* ----------------------------------------------------------------------- C8
AtErrorHandler(r, pc_, nextErr_) == pc_[r] = "done" /\ nextErr_[r] # NoError

LastResort(r, pc_, nextErr_, res_) ==
  AtErrorHandler(r, pc_, nextErr_) =>
    IF nextErr_[r] = StreamError
    THEN JsonError(res_[r], 500)
    ELSE JsonError(res_[r], 400)

\* C8: an error that reaches the application-level error handler and is not
\* an upload or validation error is answered with a generic 500 (headers not
\* yet sent); only validation and upload-shape errors are answered 400.
C8_ErrorHandlerStatus ==
  \A r \in Requests :
    /\ LastResort(r, pc, nextErr, res)
    /\ LastResort(r, vPc, vNextErr, vRes)

\* ----------------------------------------------------------------------- C9
CleanupRan(pc_, writes_, stats_, unlinks_, sends_) ==
  \A r \in Requests :
    pc_[r] = "done" /\ writes_[r] > 0 =>
      stats_[r] = 1 /\ unlinks_[r] <= 1 /\ sends_[r] = 1

\* C9: on every exit path of a request that reached staging the cleanup of
\* the staged file has run before the handler returns, and no step of the
\* cleanup, failed or not, changes the response or writes a second one.
C9_CleanupOnlyLogs ==
  [][ /\ CleanupRan(pc', writes', stats', unlinks', sends')
      /\ CleanupRan(vPc', vWrites', vStats', vUnlinks', vSends')
      /\ \A r \in Requests :
           /\ pc[r] \in {"stat", "unlink"} =>
                res'[r] = res[r] /\ sends'[r] = sends[r]
           /\ vPc[r] \in {"stat", "unlink"} =>
                vRes'[r] = vRes[r] /\ vSends'[r] = vSends[r] ]_vars

\* the unlink of a request answered 200 failed: the file is still there,
\* the failure is in the log, the response is unchanged
C9_Witness ==
  \E r \in Requests :
    /\ pc[r] = "done" /\ unlinks[r] = 1
    /\ log[r][Len(log[r])] = "Error deleting temporary file"
    /\ Exists(disk, tempInputPath[r])
    /\ res[r].status = 200 /\ sends[r] = 1

\* ---------------------------------------------------------------------- C10
\* C10: run side by side on the same requests and the same outcomes, the two
\* servers go through the same request states and produce the same
\* responses and the same staged-file effects; they differ only in the
\* configuration passed to the backend and in what they log.
C10_SameContract ==
  /\ pc = vPc
  /\ reqFile = vReqFile
  /\ nextErr = vNextErr
  /\ tempInputPath = vTempInputPath
  /\ disk = vDisk
  /\ res = vRes
  /\ sends = vSends
  /\ writes = vWrites
  /\ calls = vCalls
  /\ stats = vStats
  /\ unlinks = vUnlinks
  /\ blob = vBlob
  /\ caught = vCaught

\* both servers answered 200 after passing different configurations to the
\* backend and logging different lines
C10_Witness ==
  \E r \in Requests :
    /\ pc[r] = "done" /\ vPc[r] = "done"
    /\ res[r].status = 200 /\ vRes[r] = res[r]
    /\ config[r] = removeBackgroundConfig
    /\ vConfig[r] = imglyConfig
    /\ vConfig[r].model = "small"
    /\ log[r] # vLog[r]

\* ---------------------------------------------------------------------- C11
\* where a request stands in Received -> Validated -> Staged -> Invoked ->
\* Responded; Staged is passed within the step in which fs.writeFile settles
\* and removeBackground is called
StateOf(r, pc_, sends_) ==
  CASE sends_[r] > 0 -> "Responded"
    [] pc_[r] = "idle" -> "None"
    [] pc_[r] \in {"errorHandler", "route"} -> "Received"
    [] pc_[r] = "writeFile" -> "Validated"
    [] pc_[r] \in {"removeBackground", "arrayBuffer"} -> "Invoked"
    [] OTHER -> "Unanswered"

\* the upload passed every validation rule
Valid(r) ==
  /\ ~sent[r].abort
  /\ sent[r].part.field = "image"
  /\ sent[r].part.originalname # <<>>
  /\ sent[r].part.mimetype \in AllowedTypes
  /\ sent[r].part.size <= fileSize

\* one step of request r in the state machine, from `from` to `to`
Transition(r, from, to, pathAfter, diskAfter, resAfter, sendsAfter,
           callsBefore, callsAfter, writesBefore, writesAfter) ==
  /\ <<from, to>> \in
       { <<"None", "None">>, <<"None", "Received">>,
         <<"Received", "Received">>, <<"Received", "Validated">>,
         <<"Received", "Responded">>,
         <<"Validated", "Validated">>, <<"Validated", "Invoked">>,
         <<"Validated", "Responded">>,
         <<"Invoked", "Invoked">>, <<"Invoked", "Responded">>,
         <<"Responded", "Responded">> }
  /\ to = "Validated" => Valid(r) /\ writesAfter[r] = 1
  /\ from = "Validated" /\ to = "Invoked" =>
       /\ outcome'[r].write = "ok"
       /\ Exists(diskAfter, pathAfter[r])
       /\ callsAfter[r] = 1
  /\ to = "Invoked" => Valid(r) /\ callsAfter[r] = 1
  /\ from \in {"Received", "Validated"} /\ to = "Responded" =>
       resAfter[r].status \in {400, 500}
  /\ from = "Invoked" /\ to = "Responded" => resAfter[r].status \in {200, 500}
  /\ to = "Responded" => sendsAfter[r] = 1
  /\ from = "Responded" =>
       /\ callsAfter[r] = callsBefore[r]
       /\ writesAfter[r] = writesBefore[r]

\* C11: every request follows Received -> Validated -> Staged -> Invoked ->
\* Responded, going to Responded(error) directly from any earlier state on
\* failure: it is never Invoked without having been Staged, never Staged
\* without having been Validated, it is Responded at most once, and no
\* earlier state is entered again afterwards.
C11_RequestStateMachine ==
  [][ \A r \in Requests :
        /\ Transition(r, StateOf(r, pc, sends), StateOf(r, pc', sends'),
                      tempInputPath', disk', res', sends',
                      calls, calls', writes, writes')
        /\ Transition(r, StateOf(r, vPc, vSends), StateOf(r, vPc', vSends'),
                      vTempInputPath', vDisk', vRes', vSends',
                      vCalls, vCalls', vWrites, vWrites') ]_vars

\* one request went through every state and was answered 200; the other
\* went from Validated to Responded(error) when its write failed
C11_Witness ==
  \E r1, r2 \in Requests :
    /\ pc[r1] = "done" /\ vPc[r1] = "done"
    /\ outcome[r1].write = "ok" /\ Succeeded(r1)
    /\ StateOf(r1, pc, sends) = "Responded" /\ res[r1].status = 200
    /\ pc[r2] = "done" /\ vPc[r2] = "done"
    /\ outcome[r2].write = "fail" /\ calls[r2] = 0
    /\ StateOf(r2, pc, sends) = "Responded" /\ res[r2].status = 500

\* ---------------------------------------------------------------------- C12
WriteFailed(r) == outcome[r].write \in {"fail", "partial"}

\* answered 500 with the write's error, the backend never called
StagingErrorAnswered(r, res_, sends_, calls_) ==
  /\ JsonError(res_[r], 500)
  /\ res_[r].json.details = WriteError(outcome[r].write).message
  /\ sends_[r] = 1
  /\ calls_[r] = 0

\* nothing is left at the staged path once the handler has returned
NothingLeft(r, pc_, path_, disk_) ==
  pc_[r] = "done" => ~Exists(disk_, path_[r])

\* C12: when the temp-file write fails, before or after creating the file,
\* the request is answered 500, the backend is never invoked for it, and
\* whatever the failed write left at the staged path has been removed by
\* the cleanup when the handler returns.
C12_FailedWriteCleaned ==
  \A r \in Requests :
    WriteFailed(r) =>
      /\ StagingErrorAnswered(r, res, sends, calls)
      /\ StagingErrorAnswered(r, vRes, vSends, vCalls)
      /\ NothingLeft(r, pc, tempInputPath, disk)
      /\ NothingLeft(r, vPc, vTempInputPath, vDisk)

\* ---------------------------------------------------------------------- C13
\* a step of the cleanup of r that finds nothing at the staged path ends the
\* cleanup and logs nothing
ToleratesAbsence(r, pc_, pcAfter, path_, disk_, log_, logAfter) ==
  /\ pc_[r] \in {"stat", "unlink"}
  /\ pcAfter[r] # pc_[r]
  /\ ~Exists(disk_, path_[r])
  => /\ pcAfter[r] = "done"
     /\ logAfter[r] = log_[r]

\* C13: the cleanup tolerates the staged file being absent: whenever the
\* staged path does not exist when the existence check or the delete is
\* made (the write never created it, or it disappeared in between under
\* concurrent requests), the cleanup completes without raising and without
\* reporting a deletion error.
C13_CleanupToleratesAbsence ==
  [][ \A r \in Requests :
        /\ ToleratesAbsence(r, pc, pc', tempInputPath, disk, log, log')
        /\ ToleratesAbsence(r, vPc, vPc', vTempInputPath, vDisk, vLog, vLog') ]_vars

\* ---------------------------------------------------------------------- C14
\* the path names an entry of the scratch directory itself
DirectChild(path) ==
  /\ Len(path) = Len(tempDir) + 1
  /\ SubSeq(path, 1, Len(tempDir)) = tempDir
  /\ path[Len(path)] \notin {<<>>, <<".">>, <<"..">>}
  /\ \A i \in DOMAIN path[Len(path)] : path[Len(path)][i] # "/"

\* the last component of the filename the client sent, "" when it has none
LastComponent(r) ==
  IF sent[r].part.originalname = <<>>
  THEN <<>>
  ELSE sent[r].part.originalname[Len(sent[r].part.originalname)]

StagedInScratch(r, writes_, path_) ==
  writes_[r] > 0 =>
    /\ DirectChild(path_[r])
    /\ \E n \in Suffixes :
         path_[r][Len(path_[r])] = <<"input-", ToString(n), "-">> \o LastComponent(r)

\* C14: for every original filename supplied by the client (with directory
\* components, `..`, or empty), the staged path is a direct child of the
\* system scratch directory: only the base name is used, and no file written
\* or deleted by a request is outside that directory.
C14_StagedPathInScratch ==
  /\ \A r \in Requests :
       /\ StagedInScratch(r, writes, tempInputPath)
       /\ StagedInScratch(r, vWrites, vTempInputPath)
  /\ \A path \in DOMAIN disk \cup DOMAIN vDisk : DirectChild(path)

\* an upload named ../a.png was staged as input-<suffix>-a.png in the scratch
\* directory and removed again; an upload with an empty name was answered
\* without being staged
C14_Witness ==
  \E r1, r2 \in Requests :
    /\ sent[r1].part.originalname = << <<"..">>, <<"a.png">> >>
    /\ outcome[r1].write = "ok"
    /\ pc[r1] = "done" /\ unlinks[r1] = 1
    /\ tempInputPath[r1] \in
         { <<Head(tempDir), <<"input-", ToString(n), "-", "a.png">> >> :
             n \in Suffixes }
    /\ vTempInputPath[r1] = tempInputPath[r1]
    /\ sent[r2].part.field = "image" /\ sent[r2].part.originalname = <<>>
    /\ pc[r2] = "done" /\ writes[r2] = 0 /\ res[r2].status = 400

\* ---------------------------------------------------------------------- C15
ZeroByte(r) == Valid(r) /\ sent[r].part.size = 0

\* the upload was taken through staging and the backend call, and answered
\* by their outcome alone
AcceptedAndProcessed(r, pc_, res_, sends_, writes_, calls_, path_) ==
  /\ pc_[r] # "errorHandler"
  /\ res_[r].status # 400
  /\ pc_[r] \notin {"idle", "route"} => writes_[r] = 1 /\ DirectChild(path_[r])
  /\ outcome[r].write = "ok" => calls_[r] = 1
  /\ pc_[r] \in {"stat", "unlink", "done"} =>
       /\ sends_[r] = 1
       /\ res_[r].status =
            IF outcome[r].write = "ok" /\ Succeeded(r) THEN 200 ELSE 500

\* C15: a zero-byte upload with an allowed content type is accepted by
\* validation: it is not answered 400, it is staged and handed to the
\* backend like any other valid upload, and its response is decided only by
\* the outcome of the backend.
C15_ZeroByteAccepted ==
  \A r \in Requests :
    ZeroByte(r) =>
      /\ AcceptedAndProcessed(r, pc, res, sends, writes, calls, tempInputPath)
      /\ AcceptedAndProcessed(r, vPc, vRes, vSends, vWrites, vCalls,
                              vTempInputPath)

\* one zero-byte JPEG was staged as an empty file, processed and answered
\* 200; another was answered 500 with the backend's error
C15_Witness ==
  \E r1, r2 \in Requests :
    /\ ZeroByte(r1) /\ reqFile[r1].size = 0
    /\ pc[r1] = "done" /\ calls[r1] = 1 /\ Succeeded(r1)
    /\ res[r1].status = 200 /\ vRes[r1].status = 200
    /\ ZeroByte(r2)
    /\ pc[r2] = "done" /\ calls[r2] = 1 /\ outcome[r2].removed = "fail"
    /\ res[r2].status = 500 /\ vRes[r2].status = 500

\* ---------------------------------------------------------------------- C16
\* one step seen from request r: its response precedes every step of its
\* cleanup that touches the staged file, and its cleanup is over when its
\* handler has returned
AnsweredBeforeDeletion(r, pc_, pcAfter, sends_, sendsAfter, stats_, statsAfter,
                       unlinks_, unlinksAfter, path_, disk_, diskAfter) ==
  /\ sends_[r] = 0 /\ sendsAfter[r] = 1 => unlinksAfter[r] = 0
  /\ unlinksAfter[r] > unlinks_[r] => sends_[r] = 1
  /\ pc_[r] = "unlink" /\ pcAfter[r] = "done" =>
       /\ sends_[r] = 1
       /\ sendsAfter[r] = 1
  /\ pc_[r] = "done" =>
       /\ statsAfter[r] = stats_[r]
       /\ unlinksAfter[r] = unlinks_[r]
       /\ Exists(disk_, path_[r]) => Exists(diskAfter, path_[r]) \/
            \E q \in Requests \ {r} : path_[q] = path_[r]

\* C16: for every request that reached staging, the response (200 or 500)
\* is emitted strictly before the deletion of its staged file begins, so
\* that the file may still exist when the client has the response; the
\* handler deletes it only afterwards, and before it returns.
C16_ResponseBeforeCleanup ==
  [][ \A r \in Requests :
        /\ AnsweredBeforeDeletion(r, pc, pc', sends, sends', stats, stats',
                                  unlinks, unlinks', tempInputPath, disk, disk')
        /\ AnsweredBeforeDeletion(r, vPc, vPc', vSends, vSends', vStats, vStats',
                                  vUnlinks, vUnlinks', vTempInputPath, vDisk,
                                  vDisk') ]_vars

\* one request has been answered 200 while its staged file still exists and
\* its delete has not been issued; the other, answered 500, has deleted its
\* own file and returned
C16_Witness ==
  \E r1, r2 \in Requests :
    /\ tempInputPath[r1] # tempInputPath[r2]
    /\ sends[r1] = 1 /\ res[r1].status = 200
    /\ pc[r1] = "stat" /\ unlinks[r1] = 0
    /\ Exists(disk, tempInputPath[r1])
    /\ pc[r2] = "done" /\ res[r2].status = 500 /\ outcome[r2].write = "ok"
    /\ unlinks[r2] = 1 /\ ~Exists(disk, tempInputPath[r2])

\* ---------------------------------------------------------------------- C17
\* the request has been received by both servers
Accepted(r) == pc[r] # "idle" /\ vPc[r] # "idle"

\* both handlers have returned, each having answered exactly once
AnsweredAndReturned(r) ==
  /\ pc[r] = "done" /\ sends[r] = 1
  /\ vPc[r] = "done" /\ vSends[r] = 1

\* C17: provided every filesystem operation and the backend call
\* eventually return, every accepted POST /remove-background request
\* eventually receives exactly one response and its handler eventually
\* returns, under any interleaving with other requests; no request is left
\* waiting on another.
C17_EveryRequestAnswered ==
  \A r \in Requests : Accepted(r) ~> AnsweredAndReturned(r)

\* one request has been answered and has returned while the other, received
\* before it, is still waiting for its backend call
C17_Witness ==
  \E r1, r2 \in Requests :
    /\ AnsweredAndReturned(r1) /\ calls[r1] = 1
    /\ pc[r2] = "removeBackground" /\ sends[r2] = 0

====
